---- MODULE Spec2Model ----
(***************************************************************************)
(* nom-bufreader: the forked BufReader (buffer, pos, cap over an inner     *)
(* reader) and the parse drivers that retry a nom parser on its window,    *)
(* refilling on Incomplete.                                                *)
(***************************************************************************)
EXTENDS Integers, Sequences, FiniteSets, TLC

(* ------------------------------ bounds -------------------------------- *)

MaxCap == 3
MaxStream == 3
MaxCalls == 3
MaxLog == 7
SeekBits == 2
WordBits == 3

Min(a, b) == IF a < b THEN a ELSE b

SeqsUpTo(S, n) == UNION {[1..k -> S] : k \in 0..n}

\* Bytes the source can deliver: the space and one letter; 0 is only the
\* filler written by with_capacity.
SP == 1
LETTER == 2
Byte == {SP, LETTER}

(* ------------------------- the nom parser (P) ------------------------- *)
\* IResult as the drivers match on it: Ok((i, o)) carries the number of bytes
\* consumed (buffer.offset(i)); Incomplete carries Needed (0 is Unknown).

POk(n, o) == [t |-> "Ok", n |-> n, o |-> o, e |-> ""]
PError(e) == [t |-> "Error", n |-> 0, o |-> <<>>, e |-> e]
PFailure(e) == [t |-> "Failure", n |-> 0, o |-> <<>>, e |-> e]
PIncomplete(n) == [t |-> "Incomplete", n |-> n, o |-> <<>>, e |-> ""]

\* the token of tag(...) in method, over the model's alphabet
Token == <<LETTER, LETTER>>

\* method: streaming tag
method(i) ==
    LET l == Min(Len(i), Len(Token)) IN
    IF SubSeq(i, 1, l) # SubSeq(Token, 1, l) THEN PError("tag")
    ELSE IF Len(i) < Len(Token) THEN PIncomplete(Len(Token) - Len(i))
    ELSE POk(Len(Token), Token)

\* path: streaming take_until(" ")
path(i) ==
    IF \E k \in 1..Len(i) : i[k] = SP
    THEN LET k == CHOOSE k \in 1..Len(i) : i[k] = SP /\ \A j \in 1..(k - 1) : i[j] # SP
         IN POk(k - 1, SubSeq(i, 1, k - 1))
    ELSE PIncomplete(0)

\* space: streaming space0 (succeeds, possibly on zero bytes, at the first non-space)
space(i) ==
    IF \A k \in 1..Len(i) : i[k] = SP THEN PIncomplete(1)
    ELSE LET k == CHOOSE k \in 1..Len(i) : i[k] # SP /\ \A j \in 1..(k - 1) : i[j] = SP
         IN POk(k - 1, <<>>)

PureParsers == {"method", "path", "space", "never"}
Parsers == PureParsers \cup {"any"}

\* What p.parse(window) may return.  "never" is the parser that always wants
\* more; "any" is an arbitrary Parser (parse takes &mut self, so its answer
\* need not be a function of the window).
ParserOutcomes(p, i) ==
    CASE p = "method" -> {method(i)}
      [] p = "path" -> {path(i)}
      [] p = "space" -> {space(i)}
      [] p = "never" -> {PIncomplete(0)}
      [] OTHER -> {POk(n, SubSeq(i, 1, n)) : n \in 0..Len(i)}
                    \cup {PError("e"), PFailure("e"), PIncomplete(0)}

(* ------------------- async_bufreader::BufReader<R> -------------------- *)
\* A reader is [buffer, pos, cap]; buffer is the Vec<u8> of fixed length.

with_capacity(capacity) ==
    [buffer |-> [i \in 1..capacity |-> 0], pos |-> 0, cap |-> 0]

\* &self.buffer[self.pos..self.cap] panics when the range is out of bounds
SliceOk(r) == r.pos <= r.cap /\ r.cap <= Len(r.buffer)

Buffer(r) == SubSeq(r.buffer, r.pos + 1, r.cap)

discard_buffer_keep(r) == r

discard_buffer(r) == [r EXCEPT !.pos = 0, !.cap = 0]

\* usize at the model's width
UsizeMax == 2 ^ WordBits - 1

\* self.pos + amt leaves usize: a panic in a build with overflow checks, a
\* wrapped sum in a build without
consume_overflows(r, amt) == r.pos + amt > UsizeMax

consume_all(r, amt) == [r EXCEPT !.pos = r.cap]

\* pos = cmp::min(pos + amt, cap), the sum taken in usize
consume(r, amt) == [r EXCEPT !.pos = Min((r.pos + amt) % (UsizeMax + 1), r.cap)]

\* a reset that moves the indices and not the bytes
reset_buffer_position_lazy(r) == [r EXCEPT !.cap = r.cap - r.pos, !.pos = 0]

\* the "reset buffer position" loop: buffer[i] = buffer[pos + i], ascending
reset_buffer_position(r) ==
    [r EXCEPT !.buffer = [i \in 1..Len(r.buffer) |->
                             IF i <= r.cap - r.pos THEN r.buffer[r.pos + i]
                             ELSE r.buffer[i]],
              !.cap = r.cap - r.pos,
              !.pos = 0]

\* The slice poll_fill_buf hands to inner.poll_read: this.buffer, the whole
\* storage, so a read writes from index 0 and may return up to buffer.len().
fill_slice_len(r) == Len(r.buffer)

read_into(r, bytes) ==
    [r EXCEPT !.buffer = [i \in 1..Len(r.buffer) |->
                             IF i <= Len(bytes) THEN bytes[i] ELSE r.buffer[i]]]

poll_fill_buf_quiet(r, bytes, fail) ==
    IF r.cap = Len(r.buffer) /\ r.pos = 0
    THEN [rd |-> r, res |-> "Ok", e |-> "", took |-> 0, compacted |-> FALSE]
    ELSE [rd |-> r, res |-> "Err", e |-> "Inner", took |-> 0, compacted |-> FALSE]

\* poll_fill_buf with the inner read's answer given: `bytes` read, or an
\* error when fail.  res is Ok, Err or Panic (the final slice out of range).
poll_fill_buf(r, bytes, fail) ==
    IF r.cap = Len(r.buffer) /\ r.pos = 0
    THEN [rd |-> r, res |-> "Err", e |-> "Interrupted", took |-> 0, compacted |-> FALSE]
    ELSE LET c == r.cap = Len(r.buffer)
             r1 == IF c THEN reset_buffer_position(r) ELSE r
         IN IF fail
            THEN [rd |-> r1, res |-> "Err", e |-> "Inner", took |-> 0, compacted |-> c]
            ELSE LET r2 == [read_into(r1, bytes) EXCEPT !.cap = r1.cap + Len(bytes)]
                 IN [rd |-> r2, res |-> IF SliceOk(r2) THEN "Ok" ELSE "Panic",
                     e |-> "", took |-> Len(bytes), compacted |-> c]

\* poll_fill_buf when the inner read is not ready: ready! returns Pending
\* where `?` returns the read's error, after the same reset
poll_fill_buf_pending(r) ==
    LET f == poll_fill_buf(r, <<>>, TRUE)
    IN IF f.e = "Inner" THEN [f EXCEPT !.res = "Pending", !.e = ""] ELSE f

\* whether poll_fill_buf reaches the inner read at all
fill_reads(r) == ~(r.cap = Len(r.buffer) /\ r.pos = 0)

(* ------------------------- the inner reader R ------------------------- *)
\* inner is [data, off]: the byte stream and the physical position.

Remaining(inn) == IF inn.off < Len(inn.data) THEN Len(inn.data) - inn.off ELSE 0

\* counts a read into a slice of length l may return: 0 only at end of
\* stream or for an empty slice
ReadCounts(inn, l) ==
    IF Min(l, Remaining(inn)) = 0 THEN {0} ELSE 1..Min(l, Remaining(inn))

ReadBytes(inn, k) == SubSeq(inn.data, inn.off + 1, inn.off + k)

\* i64 and u64 at the model's width
I64Min == -(2 ^ (SeekBits - 1))
I64Max == 2 ^ (SeekBits - 1) - 1
U64Max == 2 ^ SeekBits - 1

\* the inner reader's seek: the new position, or -1 for Err (a negative or
\* overflowing position)
inner_seek(inn, whence, n) ==
    LET base == CASE whence = "Start" -> 0
                  [] whence = "End" -> Len(inn.data)
                  [] OTHER -> inn.off
    IN IF base + n < 0 \/ base + n > U64Max THEN -1 ELSE base + n

(* --------------- AsyncRead and AsyncSeek for BufReader ---------------- *)

\* poll_read takes the bypass when the window is empty and buf is at least
\* as long as the storage
read_bypasses(r, n) == r.pos = r.cap /\ n >= Len(r.buffer)

\* poll_read into a buf of length n, the inner read's answer given
poll_read(r, n, bytes, fail) ==
    IF read_bypasses(r, n)
    THEN [rd |-> discard_buffer(r), res |-> IF fail THEN "Err" ELSE "Ok",
          e |-> IF fail THEN "Inner" ELSE "", took |-> Len(bytes), out |-> bytes]
    ELSE LET f == poll_fill_buf(r, bytes, fail) IN
         IF f.res # "Ok"
         THEN [rd |-> f.rd, res |-> f.res, e |-> f.e, took |-> f.took, out |-> <<>>]
         ELSE LET rem == Buffer(f.rd)
                  nread == Min(Len(rem), n)
              IN [rd |-> consume(f.rd, nread), res |-> "Ok", e |-> "",
                  took |-> f.took, out |-> SubSeq(rem, 1, nread)]

\* poll_read when the inner read is not ready: the bypass returns Pending
\* before discard_buffer, the buffered path where poll_fill_buf does
poll_read_pending(r, n) ==
    IF read_bypasses(r, n)
    THEN [rd |-> r, res |-> "Pending", e |-> "", took |-> 0, out |-> <<>>]
    ELSE LET f == poll_fill_buf_pending(r)
         IN [rd |-> f.rd, res |-> f.res, e |-> f.e, took |-> 0, out |-> <<>>]

\* n.checked_sub(remainder) is None
sub_overflows(n, remainder) == n - remainder < I64Min \/ n - remainder > I64Max

\* a seek that forgets the buffered bytes: SeekFrom::Current(n) passed on as is
poll_seek_raw(r, inn, whence, n, fail1, fail2) ==
    LET to == inner_seek(inn, whence, n) IN
    IF to < 0 \/ fail1
    THEN [rd |-> r, off |-> inn.off, result |-> -1, seeks |-> 1]
    ELSE [rd |-> discard_buffer(r), off |-> to, result |-> to, seeks |-> 1]

\* a seek whose buffer is discarded at the end only
poll_seek_late(r, inn, whence, n, fail1, fail2) ==
    IF whence = "Current" /\ sub_overflows(n, r.cap - r.pos)
    THEN LET back == inner_seek(inn, "Current", -(r.cap - r.pos)) IN
         IF back < 0 \/ fail1
         THEN [rd |-> r, off |-> inn.off, result |-> -1, seeks |-> 1]
         ELSE LET to == inner_seek([inn EXCEPT !.off = back], "Current", n) IN
              IF to < 0 \/ fail2
              THEN [rd |-> r, off |-> back, result |-> -1, seeks |-> 2]
              ELSE [rd |-> discard_buffer(r), off |-> to, result |-> to, seeks |-> 2]
    ELSE LET to == inner_seek(inn, whence,
                              IF whence = "Current" THEN n - (r.cap - r.pos) ELSE n) IN
         IF to < 0 \/ fail1
         THEN [rd |-> r, off |-> inn.off, result |-> -1, seeks |-> 1]
         ELSE [rd |-> discard_buffer(r), off |-> to, result |-> to, seeks |-> 1]

\* poll_seek; fail1 and fail2 make the first and second inner seek fail
\* when their target is valid.  Gives the reader, the inner position and
\* the result (-1 for Err).
poll_seek(r, inn, whence, n, fail1, fail2) ==
    IF whence = "Current"
    THEN LET remainder == r.cap - r.pos IN
         IF ~sub_overflows(n, remainder)
         THEN LET to == inner_seek(inn, "Current", n - remainder) IN
              IF to < 0 \/ fail1
              THEN [rd |-> r, off |-> inn.off, result |-> -1, seeks |-> 1]
              ELSE [rd |-> discard_buffer(r), off |-> to, result |-> to, seeks |-> 1]
         ELSE LET back == inner_seek(inn, "Current", -remainder) IN
              IF back < 0 \/ fail1
              THEN [rd |-> r, off |-> inn.off, result |-> -1, seeks |-> 1]
              ELSE LET to == inner_seek([inn EXCEPT !.off = back], "Current", n) IN
                   IF to < 0 \/ fail2
                   THEN [rd |-> discard_buffer(r), off |-> back, result |-> -1, seeks |-> 2]
                   ELSE [rd |-> discard_buffer(r), off |-> to, result |-> to, seeks |-> 2]
    ELSE LET to == inner_seek(inn, whence, n) IN
         IF to < 0 \/ fail1
         THEN [rd |-> r, off |-> inn.off, result |-> -1, seeks |-> 1]
         ELSE [rd |-> discard_buffer(r), off |-> to, result |-> to, seeks |-> 1]

\* the inner seeks of one poll of poll_seek that may be the one found not
\* ready: the first, and the second where the poll gets to it
PendingAt(r, inn, whence, n) ==
    IF poll_seek(r, inn, whence, n, FALSE, TRUE).seeks = 2 THEN {1, 2} ELSE {1}

\* poll_seek when inner seek number `at` is not ready: ready! returns
\* Pending at the point where `?` returns that seek's error
poll_seek_pending(r, inn, whence, n, at) ==
    LET f == poll_seek(r, inn, whence, n, at = 1, at = 2)
    IN [rd |-> f.rd, off |-> f.off, res |-> "Pending", seeks |-> f.seeks]

(* ------------------------------ the state ----------------------------- *)

VARIABLES
    buffer, pos, cap,   \* BufReader fields
    inner,              \* the wrapped reader: [data, off]
    variant,            \* which impl of parse drives the reader
    pc,                 \* idle, attempt, fill, done, panic
    p,                  \* the parser handed to the running call
    eof, error,         \* locals of the forked-BufReader parse
    hint,               \* Needed passed to my_fill_buf (0: None)
    ret,                \* what the last call or operation returned
    h,                  \* history of the running call (observation only)
    last                \* the last direct BufReader operation (observation only)

vars == <<buffer, pos, cap, inner, variant, pc, p, eof, error, hint, ret, h, last>>

Variants == {"fork", "std", "afork"}

RetNone == [t |-> "None", o |-> <<>>, e |-> ""]
RetOk(o) == [t |-> "Ok", o |-> o, e |-> ""]
RetErr(t, e) == [t |-> t, o |-> <<>>, e |-> e]

\* the machine as one record, so that a step is a function of it
Cur ==
    [rd |-> [buffer |-> buffer, pos |-> pos, cap |-> cap], inner |-> inner,
     pc |-> pc, p |-> p, eof |-> eof, error |-> error, hint |-> hint,
     ret |-> ret, h |-> h]

Install(m) ==
    /\ buffer' = m.rd.buffer
    /\ pos' = m.rd.pos
    /\ cap' = m.rd.cap
    /\ inner' = m.inner
    /\ pc' = m.pc
    /\ p' = m.p
    /\ eof' = m.eof
    /\ error' = m.error
    /\ hint' = m.hint
    /\ ret' = m.ret
    /\ h' = m.h

(* ---------------------------- observation ----------------------------- *)

Note(hh, ev) == IF Len(hh.log) < MaxLog THEN [hh EXCEPT !.log = Append(@, ev)] ELSE hh

PEvent(out) ==
    CASE out.t = "Ok" -> "p:Ok"
      [] out.t = "Error" -> "p:Error"
      [] out.t = "Failure" -> "p:Failure"
      [] OTHER -> "p:Incomplete"

FillEvent(f) ==
    CASE f.res = "Err" -> "fill:err"
      [] f.res = "Panic" -> "fill:panic"
      [] f.took = 0 -> "fill:0"
      [] OTHER -> "fill:n"

H0 ==
    [calls |-> 0, log |-> <<>>, entryPos |-> 0, entryWin |-> <<>>, entryOff |-> 0,
     n |-> 0, prePos |-> 0, preWin |-> <<>>, compacted |-> FALSE, faults |-> FALSE,
     out |-> PIncomplete(0), attWin |-> <<>>, fillErr |-> "None", failWin |-> <<>>,
     track |-> FALSE, parsers |-> <<>>, results |-> <<>>, eaten |-> 0,
     greedy |-> TRUE]

\* a call returns: its result joins the history
Return(m, r) ==
    [m EXCEPT !.pc = "done", !.ret = r,
              !.h.results = IF m.h.track THEN Append(@, r) ELSE @]

\* the success arm shared by the drivers: consume(offset); return Ok(o)
Succeed(m, out) ==
    LET m1 == [m EXCEPT !.h = [Note(@, "consume") EXCEPT !.n = out.n,
                                                         !.eaten = IF m.h.track THEN @ + out.n ELSE @,
                                                         !.prePos = m.rd.pos,
                                                         !.preWin = Buffer(m.rd)],
                        !.rd = consume(m.rd, out.n)]
    IN Return(m1, RetOk(out.o))

(* ------------------- parse, entry (every variant) --------------------- *)

parse_enter(m, q) ==
    [m EXCEPT !.pc = "attempt", !.p = q, !.eof = FALSE, !.error = "None",
              !.hint = 0, !.ret = RetNone,
              !.h = [@ EXCEPT !.calls = IF m.h.track THEN @ + 1 ELSE @, !.log = <<>>,
                              !.entryPos = m.rd.pos, !.entryWin = Buffer(m.rd),
                              !.entryOff = m.inner.off, !.n = 0, !.prePos = 0,
                              !.preWin = <<>>, !.compacted = FALSE, !.faults = FALSE,
                              !.out = PIncomplete(0), !.attWin = <<>>,
                              !.fillErr = "None", !.failWin = <<>>,
                              !.parsers = IF m.h.track THEN Append(@, q) ELSE @]]

(* --------- impl Parse for bufreader::BufReader (the fork) ------------- *)

parse_arm_retry(out) ==
    CASE out.t = "Failure" -> "Failure"
      [] out.t \in {"Incomplete", "Error"} -> "None"
      [] OTHER -> "Some"

\* the match on p.parse(self.buffer())
parse_arm(out) ==
    CASE out.t = "Error" -> "Error"
      [] out.t = "Failure" -> "Failure"
      [] out.t = "Incomplete" -> "None"
      [] OTHER -> "Some"

none_arm_refill(e, err) == IF e THEN "Eof" ELSE "Fill"

\* the None arm before the fill: eof first, then a stored error
none_arm(e, err) ==
    IF e THEN "Eof" ELSE IF err # "None" THEN "Io" ELSE "Fill"

fill_sets_eof_never(s) == FALSE

\* Ok(s) => if s.is_empty() { eof = true }
fill_sets_eof(s) == s = <<>>

ParseFork_Attempt(m, out) ==
    LET m1 == [m EXCEPT !.h = [Note(@, PEvent(out)) EXCEPT !.out = out,
                                                          !.attWin = Buffer(m.rd)]]
        arm == parse_arm(out)
    IN CASE arm = "Error" -> Return(m1, RetErr("Error", out.e))
         [] arm = "Failure" -> Return(m1, RetErr("Failure", out.e))
         [] arm = "Some" -> Succeed(m1, out)
         [] OTHER ->
              LET d == none_arm(m.eof, m.error) IN
              CASE d = "Eof" -> Return(m1, RetErr("Eof", ""))
                [] d = "Io" -> Return([m1 EXCEPT !.error = "None"], RetErr("Io", m.error))
                [] OTHER -> [m1 EXCEPT !.pc = "fill"]

\* what a source that returns as much as it can gives the next fill
GreedyCount(m) ==
    IF fill_reads(m.rd) THEN Min(fill_slice_len(m.rd), Remaining(m.inner)) ELSE 0

ParseFork_Fill(m, k, fail) ==
    LET f == poll_fill_buf(m.rd, ReadBytes(m.inner, k), fail)
        m1 == [m EXCEPT !.rd = f.rd, !.inner.off = @ + f.took,
                        !.h = [Note(@, FillEvent(f)) EXCEPT
                                  !.compacted = @ \/ f.compacted,
                                  !.faults = @ \/ fail,
                                  !.greedy = IF m.h.track THEN @ /\ k = GreedyCount(m) ELSE @,
                                  !.fillErr = IF f.res = "Err" THEN f.e ELSE @,
                                  !.failWin = IF f.res = "Err" THEN Buffer(m.rd) ELSE @]]
    IN CASE f.res = "Err" -> [m1 EXCEPT !.error = f.e, !.pc = "attempt"]
         [] f.res = "Panic" -> [m1 EXCEPT !.pc = "panic"]
         [] OTHER -> [m1 EXCEPT !.eof = IF fill_sets_eof(Buffer(f.rd)) THEN TRUE ELSE @,
                                !.pc = "attempt"]

(* ---- impl Parse for std::io::BufReader, sync.rs, async.rs (unforked) ---- *)
\* std's and futures' BufReader::fill_buf: reads only when the window is empty.

std_fill_reads(r) == r.pos >= r.cap

std_fill_buf(r, bytes, fail) ==
    IF r.pos >= r.cap
    THEN IF fail
         THEN [rd |-> r, res |-> "Err", e |-> "Inner", took |-> 0, compacted |-> FALSE]
         ELSE [rd |-> [read_into(r, bytes) EXCEPT !.pos = 0, !.cap = Len(bytes)],
               res |-> "Ok", e |-> "", took |-> Len(bytes), compacted |-> FALSE]
    ELSE [rd |-> r, res |-> "Ok", e |-> "", took |-> 0, compacted |-> FALSE]

ParseStd_Attempt(m, out) ==
    LET m1 == [m EXCEPT !.h = [Note(@, PEvent(out)) EXCEPT !.out = out,
                                                          !.attWin = Buffer(m.rd)]]
        arm == parse_arm(out)
    IN CASE arm = "Error" -> Return(m1, RetErr("Error", out.e))
         [] arm = "Failure" -> Return(m1, RetErr("Failure", out.e))
         [] arm = "Some" -> Succeed(m1, out)
         [] OTHER -> [m1 EXCEPT !.pc = "fill"]

\* self.fill_buf()?
ParseStd_Fill(m, k, fail) ==
    LET f == std_fill_buf(m.rd, ReadBytes(m.inner, k), fail)
        m1 == [m EXCEPT !.rd = f.rd, !.inner.off = @ + f.took,
                        !.h = [Note(@, FillEvent(f)) EXCEPT !.faults = @ \/ fail]]
    IN IF f.res = "Err" THEN Return(m1, RetErr("Io", f.e))
       ELSE [m1 EXCEPT !.pc = "attempt"]

(* ------- impl AsyncParse for async_bufreader::BufReader (afork) ------- *)

\* free capacity once ensure_room_for_fill has compacted
my_fill_room(r) ==
    IF r.cap = Len(r.buffer) THEN r.pos ELSE Len(r.buffer) - r.cap

\* the read request: the hint when there is one, the free capacity otherwise
my_fill_slice_len(r, x) ==
    IF x = 0 THEN my_fill_room(r) ELSE Min(x, my_fill_room(r))

my_fill_reads(r) == ~(r.cap = Len(r.buffer) /\ r.pos = 0)

\* my_fill_buf(hint): compact if full, read, append at [cap, cap + read)
my_fill_buf(r, bytes, fail) ==
    IF r.cap = Len(r.buffer) /\ r.pos = 0
    THEN [rd |-> r, res |-> "Err", e |-> "Interrupted", took |-> 0, compacted |-> FALSE]
    ELSE LET c == r.cap = Len(r.buffer)
             r1 == IF c THEN reset_buffer_position(r) ELSE r
         IN IF fail
            THEN [rd |-> r1, res |-> "Err", e |-> "Inner", took |-> 0, compacted |-> c]
            ELSE [rd |-> [r1 EXCEPT !.buffer = [i \in 1..Len(r1.buffer) |->
                                        IF r1.cap < i /\ i <= r1.cap + Len(bytes)
                                        THEN bytes[i - r1.cap] ELSE r1.buffer[i]],
                                    !.cap = r1.cap + Len(bytes)],
                  res |-> "Ok", e |-> "", took |-> Len(bytes), compacted |-> c]

aparse_arm_eager(out) ==
    CASE out.t = "Failure" -> "Failure"
      [] out.t \in {"Incomplete", "Error"} -> "FillNone"
      [] OTHER -> "Ok"

\* the match on p.parse(buffer) of the async driver
aparse_arm(out) ==
    CASE out.t = "Error" -> "Error"
      [] out.t = "Failure" -> "Failure"
      [] out.t = "Incomplete" /\ out.n = 0 -> "FillNone"
      [] out.t = "Incomplete" -> "FillSome"
      [] OTHER -> "Ok"

ParseAFork_Attempt(m, out) ==
    LET m1 == [m EXCEPT !.h = [Note(@, PEvent(out)) EXCEPT !.out = out,
                                                          !.attWin = Buffer(m.rd)]]
        arm == aparse_arm(out)
    IN CASE arm = "Error" -> Return(m1, RetErr("Error", out.e))
         [] arm = "Failure" -> Return(m1, RetErr("Failure", out.e))
         [] arm = "FillNone" -> [m1 EXCEPT !.pc = "fill", !.hint = 0]
         [] arm = "FillSome" -> [m1 EXCEPT !.pc = "fill", !.hint = out.n]
         [] OTHER -> Succeed(m1, out)

\* self.my_fill_buf(..).await?
ParseAFork_Fill(m, k, fail) ==
    LET f == my_fill_buf(m.rd, ReadBytes(m.inner, k), fail)
        m1 == [m EXCEPT !.rd = f.rd, !.inner.off = @ + f.took,
                        !.h = [Note(@, FillEvent(f)) EXCEPT
                                  !.compacted = @ \/ f.compacted,
                                  !.faults = @ \/ fail]]
    IN IF f.res = "Err" THEN Return(m1, RetErr("Io", f.e))
       ELSE [m1 EXCEPT !.pc = "attempt"]

(* ------------------------------ actions ------------------------------- *)

Streams == SeqsUpTo(Byte, MaxStream)

\* BufReader::with_capacity(c, inner) over a source holding d, no call made
Fresh(c, d, tr) ==
    [rd |-> with_capacity(c), inner |-> [data |-> d, off |-> 0], pc |-> "idle",
     p |-> "never", eof |-> FALSE, error |-> "None", hint |-> 0, ret |-> RetNone,
     h |-> [H0 EXCEPT !.track = tr]]

Holds(m) ==
    /\ buffer = m.rd.buffer /\ pos = m.rd.pos /\ cap = m.rd.cap
    /\ inner = m.inner /\ pc = m.pc /\ p = m.p /\ eof = m.eof /\ error = m.error
    /\ hint = m.hint /\ ret = m.ret /\ h = m.h

Last0 ==
    [op |-> "none", res |-> "", pre |-> with_capacity(0), bytes |-> <<>>, out |-> <<>>,
     off |-> 0, whence |-> "", n |-> 0, seeks |-> 0, again |-> FALSE, got |-> <<>>]

InitWith(vs, tr, ds) ==
    /\ \E c \in 0..MaxCap : \E d \in ds : Holds(Fresh(c, d, tr))
    /\ variant \in vs
    /\ last = Last0

Init == InitWith(Variants, FALSE, Streams)

Call ==
    /\ pc \in {"idle", "done"}
    /\ h.track => h.calls < MaxCalls
    /\ \E q \in (IF h.track THEN PureParsers ELSE Parsers) : Install(parse_enter(Cur, q))
    /\ UNCHANGED <<variant, last>>

\* the inner read's possible answers to a fill: (count, failed)
FillAnswers(reads, inn, l) ==
    IF reads
    THEN {<<k, FALSE>> : k \in ReadCounts(inn, l)} \cup (IF h.track THEN {} ELSE {<<0, TRUE>>})
    ELSE {<<0, FALSE>>}

ForkAttempt ==
    /\ variant = "fork" /\ pc = "attempt"
    /\ \E out \in ParserOutcomes(p, Buffer(Cur.rd)) : Install(ParseFork_Attempt(Cur, out))
    /\ UNCHANGED <<variant, last>>

ForkFill ==
    /\ variant = "fork" /\ pc = "fill"
    /\ \E a \in FillAnswers(fill_reads(Cur.rd), inner, fill_slice_len(Cur.rd)) :
          Install(ParseFork_Fill(Cur, a[1], a[2]))
    /\ UNCHANGED <<variant, last>>

StdAttempt ==
    /\ variant = "std" /\ pc = "attempt"
    /\ \E out \in ParserOutcomes(p, Buffer(Cur.rd)) : Install(ParseStd_Attempt(Cur, out))
    /\ UNCHANGED <<variant, last>>

StdFill ==
    /\ variant = "std" /\ pc = "fill"
    /\ \E a \in FillAnswers(std_fill_reads(Cur.rd), inner, Len(buffer)) :
          Install(ParseStd_Fill(Cur, a[1], a[2]))
    /\ UNCHANGED <<variant, last>>

AForkAttempt ==
    /\ variant = "afork" /\ pc = "attempt"
    /\ \E out \in ParserOutcomes(p, Buffer(Cur.rd)) : Install(ParseAFork_Attempt(Cur, out))
    /\ UNCHANGED <<variant, last>>

AForkFill ==
    /\ variant = "afork" /\ pc = "fill"
    /\ \E a \in FillAnswers(my_fill_reads(Cur.rd), inner, my_fill_slice_len(Cur.rd, hint)) :
          Install(ParseAFork_Fill(Cur, a[1], a[2]))
    /\ UNCHANGED <<variant, last>>

Next == Call \/ ForkAttempt \/ ForkFill \/ StdAttempt \/ StdFill \/ AForkAttempt \/ AForkFill

Spec == Init /\ [][Next]_vars

\* the fork alone, on a source that never fails, remembering each call's
\* parser and result
InitSeq == InitWith({"fork"}, TRUE, Streams)

NextSeq == Call \/ ForkAttempt \/ ForkFill

SpecSeq == InitSeq /\ [][NextSeq]_vars

(* -------------- the BufReader used directly (no parse) --------------- *)

DriverIdle == UNCHANGED <<variant, p, eof, error, hint, h>>

Put(r) == buffer' = r.buffer /\ pos' = r.pos /\ cap' = r.cap

\* a panic unwinds out of the operation: nothing is called afterwards
After(res) == IF res = "Panic" THEN "panic" ELSE "idle"

RdFillBuf ==
    /\ pc = "idle"
    /\ \E a \in FillAnswers(fill_reads(Cur.rd), inner, fill_slice_len(Cur.rd)) :
          LET bytes == ReadBytes(inner, a[1])
              f == poll_fill_buf(Cur.rd, bytes, a[2])
          IN /\ Put(f.rd)
             /\ inner' = [inner EXCEPT !.off = @ + f.took]
             /\ pc' = After(f.res)
             /\ ret' = RetErr(f.res, f.e)
             /\ last' = [Last0 EXCEPT !.op = "fill", !.res = f.res, !.pre = Cur.rd,
                                      !.bytes = IF f.res = "Err" THEN <<>> ELSE bytes,
                                      !.off = inner.off,
                                      !.again = (last.op = "fill" /\ last.res = "Pending")]
    /\ DriverIdle

\* a poll of poll_fill_buf that finds the inner read not ready
RdFillPending ==
    /\ pc = "idle"
    /\ LET f == poll_fill_buf_pending(Cur.rd)
       IN /\ Put(f.rd)
          /\ ret' = RetErr(f.res, f.e)
          /\ last' = [Last0 EXCEPT !.op = "fill", !.res = f.res, !.pre = Cur.rd,
                                   !.off = inner.off,
                                   !.again = (last.op = "fill" /\ last.res = "Pending")]
    /\ UNCHANGED <<inner, pc>>
    /\ DriverIdle

\* amounts the caller may pass: up to past the window, and the largest usize
ConsumeAmounts == (0..(MaxCap + 1)) \cup {UsizeMax}

Builds(r, amt) == IF consume_overflows(r, amt) THEN {"checked", "wrapping"} ELSE {"wrapping"}

RdConsume ==
    /\ pc = "idle"
    /\ \E amt \in ConsumeAmounts : \E build \in Builds(Cur.rd, amt) :
          IF build = "checked"
          THEN /\ UNCHANGED <<buffer, pos, cap>>
               /\ pc' = "panic"
               /\ last' = [Last0 EXCEPT !.op = "consume", !.res = "Panic", !.pre = Cur.rd,
                                        !.off = inner.off, !.n = amt]
          ELSE /\ Put(consume(Cur.rd, amt))
               /\ pc' = pc
               /\ last' = [Last0 EXCEPT !.op = "consume", !.res = "Ok", !.pre = Cur.rd,
                                        !.off = inner.off, !.n = amt]
    /\ ret' = RetNone
    /\ UNCHANGED inner
    /\ DriverIdle

RdRead ==
    /\ pc = "idle"
    /\ \E n \in 0..(MaxCap + 1) :
       \E a \in FillAnswers(read_bypasses(Cur.rd, n) \/ fill_reads(Cur.rd), inner,
                            IF read_bypasses(Cur.rd, n) THEN n ELSE fill_slice_len(Cur.rd)) :
          LET bytes == ReadBytes(inner, a[1])
              f == poll_read(Cur.rd, n, bytes, a[2])
          IN /\ Put(f.rd)
             /\ inner' = [inner EXCEPT !.off = @ + f.took]
             /\ pc' = After(f.res)
             /\ ret' = [t |-> f.res, o |-> f.out, e |-> f.e]
             /\ last' = [Last0 EXCEPT !.op = "read", !.res = f.res, !.pre = Cur.rd,
                                      !.bytes = IF f.res = "Err" THEN <<>> ELSE bytes,
                                      !.out = f.out, !.off = inner.off, !.n = n,
                                      !.got = IF h.track THEN last.got \o f.out ELSE <<>>]
    /\ DriverIdle

\* a poll of poll_read that finds the inner read not ready
RdReadPending ==
    /\ pc = "idle"
    /\ \E n \in 0..(MaxCap + 1) :
          LET f == poll_read_pending(Cur.rd, n)
          IN /\ Put(f.rd)
             /\ ret' = [t |-> f.res, o |-> f.out, e |-> f.e]
             /\ last' = [Last0 EXCEPT !.op = "read", !.res = f.res, !.pre = Cur.rd,
                                      !.off = inner.off, !.n = n,
                                      !.got = IF h.track THEN last.got ELSE <<>>]
    /\ UNCHANGED <<inner, pc>>
    /\ DriverIdle

SeekArgs ==
    ({"Start"} \X (0..U64Max)) \cup ({"End", "Current"} \X (I64Min..I64Max))

\* which inner seeks may fail: the second only where there is one
SeekFaults(r, whence, n) ==
    IF whence = "Current" /\ sub_overflows(n, r.cap - r.pos)
    THEN {<<FALSE, FALSE>>, <<TRUE, FALSE>>, <<FALSE, TRUE>>}
    ELSE {<<FALSE, FALSE>>, <<TRUE, FALSE>>}

\* a poll of poll_seek with the argument of the poll before it, which
\* returned Pending: the same call, polled again
Resumes(whence, n) ==
    last.op = "seek" /\ last.res = "Pending" /\ last.whence = whence /\ last.n = n

\* what is remembered of a seek call: the reader and the source position at
\* its first poll
SeekNote(whence, n, res, seeks) ==
    [Last0 EXCEPT !.op = "seek", !.res = res,
                  !.pre = IF Resumes(whence, n) THEN last.pre ELSE Cur.rd,
                  !.off = IF Resumes(whence, n) THEN last.off ELSE inner.off,
                  !.whence = whence, !.n = n, !.seeks = seeks,
                  !.again = Resumes(whence, n)]

RdSeek ==
    /\ pc = "idle"
    /\ \E a \in SeekArgs : \E fl \in SeekFaults(Cur.rd, a[1], a[2]) :
          LET f == poll_seek(Cur.rd, inner, a[1], a[2], fl[1], fl[2])
          IN /\ Put(f.rd)
             /\ inner' = [inner EXCEPT !.off = f.off]
             /\ ret' = IF f.result < 0 THEN RetErr("Err", "Inner") ELSE RetOk(<<f.result>>)
             /\ last' = SeekNote(a[1], a[2], IF f.result < 0 THEN "Err" ELSE "Ok", f.seeks)
    /\ pc' = pc
    /\ DriverIdle

\* a poll of poll_seek that finds an inner seek not ready
RdSeekPending ==
    /\ pc = "idle"
    /\ \E a \in SeekArgs : \E at \in PendingAt(Cur.rd, inner, a[1], a[2]) :
          LET f == poll_seek_pending(Cur.rd, inner, a[1], a[2], at)
          IN /\ Put(f.rd)
             /\ inner' = [inner EXCEPT !.off = f.off]
             /\ ret' = RetErr(f.res, "")
             /\ last' = SeekNote(a[1], a[2], f.res, f.seeks)
    /\ pc' = pc
    /\ DriverIdle

\* the reader never looks at a byte's value: streams of distinct bytes show
\* every byte that is lost, repeated or out of place
Counting == {[i \in 1..k |-> i] : k \in 0..MaxStream}

InitReader == InitWith({"fork"}, FALSE, Counting)

NextReader == RdFillBuf \/ RdConsume \/ RdRead \/ RdSeek

SpecReader == InitReader /\ [][NextReader]_vars

\* polls of poll_fill_buf, ready or not, and consumes
NextFill == RdFillBuf \/ RdFillPending \/ RdConsume

SpecFill == InitReader /\ [][NextFill]_vars

\* poll_read alone, ready or not, on a source that never fails, remembering
\* the bytes delivered
InitRead == InitWith({"fork"}, TRUE, Counting)

NextRead == RdRead \/ RdReadPending

SpecRead == InitRead /\ [][NextRead]_vars

\* fills, consumes and seeks on one reader over the longest stream
InitSeek ==
    /\ Holds(Fresh(MaxCap - 1, [i \in 1..MaxStream |-> i], FALSE))
    /\ variant = "fork"
    /\ last = Last0

NextSeek == RdFillBuf \/ RdConsume \/ RdSeek

SpecSeek == InitSeek /\ [][NextSeek]_vars

\* fills, consumes and polls of poll_seek, ready or not, on one reader over
\* the longest stream
InitSuspend ==
    /\ Holds(Fresh(MaxCap - 2, [i \in 1..MaxStream |-> i], FALSE))
    /\ variant = "fork"
    /\ last = Last0

NextSuspend == RdFillBuf \/ RdConsume \/ RdSeek \/ RdSeekPending

SpecSuspend == InitSuspend /\ [][NextSuspend]_vars

(* ---------------- whole calls, on a source read greedily -------------- *)

Only(S) == CHOOSE x \in S : TRUE

Fuel == 2 * MaxLog

\* the loop of the fork's parse with a pure parser, each read returning all
\* it can, never failing
RECURSIVE RunFork(_, _)
RunFork(m, fuel) ==
    IF fuel = 0 \/ m.pc \notin {"attempt", "fill"} THEN m
    ELSE IF m.pc = "attempt"
    THEN RunFork(ParseFork_Attempt(m, Only(ParserOutcomes(m.p, Buffer(m.rd)))), fuel - 1)
    ELSE RunFork(ParseFork_Fill(m, GreedyCount(m), FALSE), fuel - 1)

\* one parse call after the other, while they return
RECURSIVE RunCalls(_, _)
RunCalls(m, qs) ==
    IF qs = <<>> THEN m
    ELSE LET m1 == RunFork(parse_enter(m, Head(qs)), Fuel)
         IN IF m1.pc = "done" THEN RunCalls(m1, Tail(qs)) ELSE m1

\* the loop of the fork's parse with a pure parser on a source that gives no
\* byte: fs tells, fill by fill, whether the read fails
RECURSIVE ReplayFork(_, _)
ReplayFork(m, fs) ==
    IF m.pc = "attempt"
    THEN ReplayFork(ParseFork_Attempt(m, Only(ParserOutcomes(m.p, Buffer(m.rd)))), fs)
    ELSE IF m.pc = "fill" /\ fs # <<>>
    THEN ReplayFork(ParseFork_Fill(m, 0, Head(fs)), Tail(fs))
    ELSE m

(* ------------------------------- claims ------------------------------- *)

IsFill(ev) == ev \in {"fill:n", "fill:0", "fill:err", "fill:panic"}
IsAttempt(ev) == ev \in {"p:Ok", "p:Error", "p:Failure", "p:Incomplete"}

\* every parser invocation of the running call returned Incomplete
AllIncomplete(log) == \A i \in 1..Len(log) : IsAttempt(log[i]) => log[i] = "p:Incomplete"

\* the running call's log holds everything that happened in it
Whole(log) == Len(log) < MaxLog

InForkCall == variant = "fork" /\ pc # "idle"

\* the case of C2: empty window at entry, the first fill read zero bytes
EmptyEofCase ==
    /\ InForkCall
    /\ h.entryWin = <<>>
    /\ AllIncomplete(h.log)
    /\ Len(h.log) >= 2
    /\ h.log[2] = "fill:0"

\* C2: with an empty window, a first fill of zero bytes and a parser that
\* always returns Incomplete, the call is exactly: attempt, one fill, one more
\* attempt, return Error::Eof; no second fill.
C2_EofAfterOneFill ==
    EmptyEofCase =>
        /\ Len(h.log) <= 3
        /\ (Len(h.log) = 2 => pc = "attempt" /\ eof)
        /\ (Len(h.log) = 3 =>
               /\ h.log = <<"p:Incomplete", "fill:0", "p:Incomplete">>
               /\ pc = "done"
               /\ ret = RetErr("Eof", ""))

C2_Witness == EmptyEofCase /\ pc = "done" /\ ret.t = "Eof" /\ p = "never"

NumberOf(log, ev) == Cardinality({i \in 1..Len(log) : log[i] = ev})

\* the case of C3: the parser keeps returning Incomplete and every fill of
\* the call read zero bytes
ExhaustedCase ==
    /\ InForkCall
    /\ AllIncomplete(h.log)
    /\ \A i \in 1..Len(h.log) : IsFill(h.log[i]) => h.log[i] = "fill:0"

\* C3: whatever the window holds, with an exhausted source and a parser that
\* keeps returning Incomplete the call returns Error::Eof, and no later than
\* its second zero-byte fill.
C3_EofBySecondZeroFill ==
    ExhaustedCase =>
        /\ NumberOf(h.log, "fill:0") <= 2
        /\ (pc = "done" => ret = RetErr("Eof", ""))

\* the position in the log of the call's failed fill, 0 when there is none
FailedFillAt == IF \E i \in 1..Len(h.log) : h.log[i] = "fill:err"
                THEN CHOOSE i \in 1..Len(h.log) : h.log[i] = "fill:err"
                ELSE 0

DeferredCase == InForkCall /\ Whole(h.log) /\ FailedFillAt > 0

\* after the failed fill: nothing, or one parser invocation (and the consume
\* of its success) and the return; never another fill
OneMoreAttempt ==
    LET i == FailedFillAt IN
    /\ NumberOf(h.log, "fill:err") = 1
    /\ (Len(h.log) = i => pc = "attempt" /\ error = h.fillErr)
    /\ (Len(h.log) > i =>
           /\ pc = "done"
           /\ IsAttempt(h.log[i + 1])
           /\ h.attWin = h.failWin
           /\ Len(h.log) = i + 1 + (IF h.log[i + 1] = "p:Ok" THEN 1 ELSE 0)
           /\ (h.log[i + 1] = "p:Ok" => h.log[i + 2] = "consume" /\ ret = RetOk(h.out.o)))

\* C4 as claimed: a fill failed with e; the parser runs exactly once more on
\* the buffered window; its success is returned and e dropped, otherwise
\* Error::Io(e) is returned; no fill follows the failed one.
C4_Original ==
    DeferredCase =>
        /\ OneMoreAttempt
        /\ (Len(h.log) > FailedFillAt /\ h.log[FailedFillAt + 1] # "p:Ok"
               => ret = RetErr("Io", h.fillErr))

\* C4 as amended: as above, but Error::Io(e) is returned only when that
\* last attempt is Incomplete again; when it reports Error or Failure, that
\* parser error is returned and e is dropped.
C4_DeferredIo ==
    DeferredCase =>
        /\ OneMoreAttempt
        /\ (Len(h.log) > FailedFillAt =>
               LET ev == h.log[FailedFillAt + 1] IN
               /\ (ev = "p:Incomplete" => ret = RetErr("Io", h.fillErr))
               /\ (ev = "p:Error" => ret = RetErr("Error", h.out.e))
               /\ (ev = "p:Failure" => ret = RetErr("Failure", h.out.e)))

C4_Witness ==
    /\ DeferredCase /\ pc = "done"
    /\ ret = RetErr("Io", "Inner")
    /\ h.entryWin # <<>>

FailedCase == InForkCall /\ pc = "done" /\ ret.t \in {"Error", "Failure", "Io", "Eof"}

C6_ParserErrorsImmediate ==
    \A i \in 1..Len(h.log) :
        h.log[i] \in {"p:Error", "p:Failure"} =>
            /\ i = Len(h.log)
            /\ pc = "done"
            /\ h.out.t \in {"Error", "Failure"}
            /\ ret = RetErr(h.out.t, h.out.e)

C6_Witness ==
    /\ variant = "afork" /\ pc = "done" /\ ret = RetErr("Failure", "e")
    /\ Len(h.log) > 1

SuccessCase == InForkCall /\ pc = "done" /\ ret.t = "Ok"

Drop(w, n) == SubSeq(w, n + 1, Len(w))

\* C7 as claimed: after a successful call pos is strictly greater than at
\* entry, by exactly the bytes the parser reported; the window has lost them.
C7_Original ==
    SuccessCase =>
        /\ pos > h.entryPos
        /\ pos = h.entryPos + h.n
        /\ Buffer(Cur.rd) = Drop(h.preWin, h.n)

\* C7 as amended: pos is its value just before the consume plus the bytes
\* reported (possibly zero) and the window is the one the parser saw without
\* them; measured from call entry this holds only for calls in which no
\* compaction ran.
C7_ConsumeAdvances ==
    SuccessCase =>
        /\ h.n <= Len(h.preWin)
        /\ pos = h.prePos + h.n
        /\ Buffer(Cur.rd) = Drop(h.preWin, h.n)
        /\ (~h.compacted => pos = h.entryPos + h.n)
        /\ (~h.compacted /\ h.n > 0 => pos > h.entryPos)

C7_Witness == SuccessCase /\ h.compacted /\ h.n > 0 /\ pos < h.entryPos

\* d is exactly one encoded value of q: q succeeds on it and wants more on
\* every proper prefix
CompleteValue(q, d) ==
    /\ q \in PureParsers
    /\ Only(ParserOutcomes(q, d)).t = "Ok"
    /\ \A k \in 0..(Len(d) - 1) : Only(ParserOutcomes(q, SubSeq(d, 1, k))).t = "Incomplete"

\* the case of C1: a call on a fresh reader whose source holds one value that
\* fits the buffer, delivered in whatever chunks, no read failing
FragmentCase ==
    /\ InForkCall
    /\ pc \in {"done", "panic"}
    /\ h.entryOff = 0 /\ h.entryWin = <<>>
    /\ CompleteValue(p, inner.data)
    /\ Len(inner.data) <= Len(buffer)
    /\ ~h.faults

\* the same call with all the bytes delivered by one fill
OneFill == RunFork(parse_enter(Fresh(Len(buffer), inner.data, FALSE), p), Fuel)

LargeCap == MaxStream + 1

\* no call so far found the buffer completely filled, and the bytes read
\* and not yet consumed by a success fit the buffer
NeverFull ==
    /\ \A i \in 1..Len(h.results) : h.results[i].t # "Io"
    /\ inner.off - h.eaten <= Len(buffer)

\* the same calls on the same stream through the large buffer
LargeRun == RunCalls(Fresh(LargeCap, inner.data, TRUE), h.parsers)

C8_BufferBounds == 0 <= pos /\ pos <= cap /\ cap <= Len(buffer)

\* C9: a fill that read k bytes leaves the old window in place and appends
\* them: the window is the old window followed by the bytes read.
C9_FillOnlyAppends ==
    (last.op = "fill" /\ last.res = "Ok") =>
        Buffer(Cur.rd) = Buffer(last.pre) \o last.bytes

(* C11 *)

\* the window occupies the whole storage
Full == pos = 0 /\ cap = Len(buffer)

\* C11: a fill of the fork on a window that occupies the whole storage fails
\* with an I/O error, reads nothing from the source and leaves pos, cap and
\* the storage as they were; when the parser then returns Incomplete on that
\* window again, the call returns that error.
C11_ExhaustionIsError ==
    [][/\ (variant = "fork" /\ pc = "fill" /\ Full) =>
            /\ buffer' = buffer /\ pos' = pos /\ cap' = cap
            /\ inner' = inner
            /\ error' = "Interrupted"
            /\ pc' = "attempt"
       /\ (variant = "fork" /\ pc = "attempt" /\ Full /\ error = "Interrupted"
              /\ h'.out.t = "Incomplete") =>
            /\ pc' = "done"
            /\ ret' = RetErr("Io", "Interrupted")
            /\ buffer' = buffer /\ pos' = pos /\ cap' = cap]_vars

C11_Witness ==
    /\ variant = "fork" /\ pc = "done" /\ Full /\ Len(buffer) > 1
    /\ ret = RetErr("Io", "Interrupted")
    /\ Len(h.log) > 3

(* C12 *)

\* a fill that added no byte to the window
AddedNothing(ev) == ev \in {"fill:0", "fill:err"}

\* C12: within one call of the fork's parse the parser is not invoked again
\* and again on a window to which no byte was added: apart from the one last
\* attempt that follows a failed fill or the end of the stream, a byte is
\* added between two consecutive parser invocations.
C12_NoRepeatedAttempt ==
    InForkCall =>
        \A i \in 1..(Len(h.log) - 4) :
            ~(/\ IsAttempt(h.log[i]) /\ AddedNothing(h.log[i + 1])
              /\ IsAttempt(h.log[i + 2]) /\ AddedNothing(h.log[i + 3])
              /\ IsAttempt(h.log[i + 4]))

(* C13 *)

InCall == pc # "idle"

\* C13: in every driver a fill comes right after a parser invocation on the
\* current window that returned Incomplete, the source is read in fill steps
\* only, and a call whose parser succeeds or fails on the window present at
\* entry reads nothing from the source.  (Stated of every step: what the
\* step leaves behind.)
C13_IoOnlyOnDemand ==
    [][/\ (inner' # inner => pc = "fill" /\ pc' # "fill")
       /\ (pc' = "fill" => pc = "attempt" /\ h'.out.t = "Incomplete"
                            /\ h'.attWin = SubSeq(buffer', pos' + 1, cap')
                            /\ buffer' = buffer /\ pos' = pos /\ cap' = cap)
       /\ \A i \in 1..Len(h'.log) :
              IsFill(h'.log[i]) => i > 1 /\ h'.log[i - 1] = "p:Incomplete"
       /\ (Len(h'.log) >= 1 /\ h'.log[1] \in {"p:Ok", "p:Error", "p:Failure"}) =>
              /\ inner' = inner
              /\ inner'.off = h'.entryOff
              /\ \A i \in 1..Len(h'.log) : ~IsFill(h'.log[i])]_vars

C13_Witness ==
    /\ variant = "std" /\ pc = "done" /\ h.log = <<"p:Error">>
    /\ h.entryWin # <<>> /\ inner.off = h.entryOff /\ inner.off < Len(inner.data)

(* C14 *)

\* the source still holds bytes that complete a value of the call's parser
\* on the current window, and the value fits the storage
RestAvailable ==
    /\ p \in PureParsers
    /\ SliceOk(Cur.rd)
    /\ \E k \in 1..Remaining(inner) :
          /\ Len(Buffer(Cur.rd)) + k <= Len(buffer)
          /\ Only(ParserOutcomes(p, Buffer(Cur.rd) \o ReadBytes(inner, k))).t = "Ok"

\* C14: the driver over the unforked BufReader does not spin on an unchanged
\* window: while the source holds the remaining bytes of the value, the
\* parser is not invoked a third time on a window to which two fills in a
\* row added nothing.
C14_UnforkedRefills ==
    (variant = "std" /\ InCall /\ RestAvailable) =>
        \A i \in 1..(Len(h.log) - 4) :
            ~(/\ h.log[i] = "p:Incomplete" /\ h.log[i + 1] = "fill:0"
              /\ h.log[i + 2] = "p:Incomplete" /\ h.log[i + 3] = "fill:0"
              /\ h.log[i + 4] = "p:Incomplete")

(* C15 *)

RECURSIVE FailsOf(_)
\* the answers the source gave the fills of a call that read no byte
FailsOf(log) ==
    IF log = <<>> THEN <<>>
    ELSE IF IsFill(Head(log))
    THEN <<Head(log) = "fill:err" /\ h.fillErr # "Interrupted">> \o FailsOf(Tail(log))
    ELSE FailsOf(Tail(log))

\* the reader as it was when the call was entered (no compaction since)
EntryReader ==
    [buffer |-> buffer, pos |-> h.entryPos, cap |-> h.entryPos + Len(h.entryWin)]

\* the blocking driver given the same call: same reader, same parser, same
\* answers of the source
Blocking ==
    ReplayFork(parse_enter([Cur EXCEPT !.rd = EntryReader, !.pc = "idle"], p),
               FailsOf(h.log))

\* C15: for a source that behaves the same (here: gives no byte, reaches its
\* end or fails at the same fill) and the same deterministic parser, the
\* async driver returns what the blocking driver over the fork returns, the
\* same value or the same error variant, and leaves the same window; it has
\* returned when the blocking driver has, and asks for no further fill.
C15_DriversAgree ==
    (/\ variant = "afork" /\ pc \in {"fill", "done"} /\ p \in PureParsers
     /\ inner.off = h.entryOff /\ ~h.compacted /\ Whole(h.log)
     /\ Blocking.pc = "done") =>
        /\ pc = "done"
        /\ ret.t = Blocking.ret.t
        /\ ret.o = Blocking.ret.o
        /\ Buffer(Cur.rd) = Buffer(Blocking.rd)

(* C16, C17, C18 *)

\* the buffered, unconsumed bytes before the last operation
Buffered == last.pre.cap - last.pre.pos

SeekOk == last.op = "seek" /\ last.res = "Ok"

\* C16: a successful seek with SeekFrom::Current(n) leaves the source at its
\* position before, less the buffered bytes, plus n, through one inner seek
\* or through two.
C16_RelativeSeek ==
    (SeekOk /\ last.whence = "Current") =>
        inner.off = (last.off - Buffered) + last.n

C16_Witness ==
    /\ SeekOk /\ last.whence = "Current" /\ last.seeks = 2 /\ Buffered > 0
    /\ inner.off # last.off + last.n

\* C17: after every successful seek pos = cap = 0, the window is empty, and
\* the source is at the position the seek returned.
C17_SeekDiscards ==
    SeekOk =>
        /\ pos = 0 /\ cap = 0
        /\ Buffer(Cur.rd) = <<>>
        /\ ret = RetOk(<<inner.off>>)

\* a seek to a position whose byte was in the window
C17_Witness ==
    /\ SeekOk /\ last.whence = "Start"
    /\ last.off - Buffered <= inner.off /\ inner.off < last.off

\* C18: when the second of two inner seeks fails, the source is where
\* SeekFrom::Current(0) would have put it (its position less the buffered
\* bytes), the buffer is empty and the error is returned.
C18_SecondSeekFails ==
    (last.op = "seek" /\ last.res = "Err" /\ last.seeks = 2) =>
        /\ inner.off = last.off - Buffered
        /\ inner.off = poll_seek(last.pre, [inner EXCEPT !.off = last.off],
                                 "Current", 0, FALSE, FALSE).off
        /\ pos = 0 /\ cap = 0
        /\ ret = RetErr("Err", "Inner")

C18_Witness ==
    /\ last.op = "seek" /\ last.res = "Err" /\ last.seeks = 2
    /\ Buffered > 0 /\ last.pre.pos > 0

(* C19 *)

\* C19: consume(amt), for every amt up to the largest usize, sets pos to
\* pos + min(amt, cap - pos), leaves cap and the stored bytes as they were,
\* and does not overflow or panic.
C19_ConsumeClamps ==
    last.op = "consume" =>
        /\ last.res = "Ok"
        /\ pos = last.pre.pos + Min(last.n, last.pre.cap - last.pre.pos)
        /\ cap = last.pre.cap
        /\ buffer = last.pre.buffer

(* C20 *)

\* the state in which poll_fill_buf resets the buffer position
Trigger(r) == r.cap = Len(r.buffer) /\ r.pos > 0

\* C20: poll_fill_buf compacts exactly when cap is the storage length and
\* pos > 0; the compaction sets pos to 0 and cap to cap - pos and keeps the
\* window's bytes, now at the front of the storage; in any other state no
\* byte is moved; a poll right after one that returned Pending does not
\* compact again.
C20_Compaction ==
    (last.op = "fill" /\ last.res # "Panic") =>
        LET pre == last.pre
            k == Len(last.bytes)
        IN /\ IF Trigger(pre)
              THEN /\ pos = 0
                   /\ cap = (pre.cap - pre.pos) + k
                   /\ k = 0 => /\ Buffer(Cur.rd) = Buffer(pre)
                               /\ \A i \in 1..cap : buffer[i] = pre.buffer[pre.pos + i]
              ELSE /\ pos = pre.pos
                   /\ cap = pre.cap + k
                   /\ \A i \in (k + 1)..Len(buffer) : buffer[i] = pre.buffer[i]
           /\ Len(buffer) = Len(pre.buffer)
           /\ last.again => ~Trigger(pre) /\ (k = 0 => Cur.rd = pre)

C20_Witness ==
    /\ last.op = "fill" /\ last.res = "Pending" /\ Trigger(last.pre)
    /\ Buffered > 0 /\ cap = Buffered /\ Len(buffer) > 2

(* C21 *)

\* the bytes of the source read so far and not yet consumed by a parse call
Unconsumed == SubSeq(inner.data, h.eaten + 1, inner.off)

ReadOnWindow ==
    /\ last.op = "read" /\ last.res # "Pending"
    /\ last.n > 0 /\ last.pre.pos < last.pre.cap

\* C22: over every sequence of poll_read calls, whatever the sizes of the
\* destination slices (bypass and buffered path), the bytes returned so far
\* are a prefix of the source's byte stream, and a poll_read on a buffer
\* that holds unconsumed bytes returns some of them, not an error.
C22_ReadTransparency ==
    (h.track /\ last.op = "read") =>
        /\ Len(last.got) <= Len(inner.data)
        /\ last.got = SubSeq(inner.data, 1, Len(last.got))
        /\ ReadOnWindow =>
              /\ last.res = "Ok"
              /\ last.out # <<>>
              /\ last.out = SubSeq(Buffer(last.pre), 1, Len(last.out))

(* C23 *)

\* C23: however often the inner poll_seek returns Pending before Ready, on
\* the one-seek path and on the two-seek path, polling poll_seek again
\* with the same argument rewinds by the buffered length once: while the call
\* is suspended the source position less the buffered length is what it was
\* at the first poll, and when the call returns Ready(Ok) the source has
\* moved by n - (cap - pos) as measured at the first poll.
C23_SeekSurvivesSuspension ==
    (last.op = "seek" /\ last.whence = "Current") =>
        /\ last.res = "Pending" => inner.off - (cap - pos) = last.off - Buffered
        /\ last.res = "Ok" =>
              /\ inner.off - last.off = last.n - Buffered
              /\ ret = RetOk(<<inner.off>>)

\* a two-seek call that was suspended at its second inner seek, after the
\* rewind, and returned Ready(Ok) when polled again
C23_Witness ==
    /\ SeekOk /\ last.whence = "Current" /\ last.again
    /\ sub_overflows(last.n, Buffered) /\ Buffered > 0
    /\ last.seeks = 1

====
